---- MODULE Spec2Model ----
\* Model of src/original_database.py: class Database, a connection manager
\* holding a master engine, an optional replica engine and two session
\* factories.  The coroutines connect() and disconnect() are one action per
\* stretch of code between awaits, get_session() and health_check() one
\* action each; the outcomes of the database client library (engine
\* creation, liveness probe, dispose) are nondeterministic choices of the
\* environment.
EXTENDS Naturals, Integers, Sequences, FiniteSets, Bags, TLC

\* ---------------------------------------------------------------- bounds
\* Engines ever created by create_async_engine over the whole run.
MaxEngines == 4

\* ---------------------------------------------------------------- values
\* Python None for the Optional[...] attributes; engines are numbered from 1.
None == 0

\* The five keys _build_connection_string reads from a config mapping.
Keys == {"username", "password", "host", "port", "database"}

\* A field value is falsy ("") or truthy ("x") for all().
Vals == {"", "x"}

\* Key sets of the config mappings that are enumerated.
ConfigDomains == {Keys, {}}

\* The fields whose value may be falsy in an enumerated mapping.
BlankKeys == {"host"}

\* The empty mapping {}.
EmptyItems == [k \in {} |-> ""]

\* A config is a mapping (items) or Python None (none = TRUE).
NoneConfig == [none |-> TRUE, items |-> EmptyItems]

\* Mappings over the enumerated key sets, falsy at most in BlankKeys.
DictConfigs ==
  { [none |-> FALSE, items |-> f] :
      f \in { g \in UNION { [D -> Vals] : D \in ConfigDomains } :
                {k \in DOMAIN g : g[k] = ""} \subseteq BlankKeys } }

\* How an await ends when the coroutine is resumed: the awaited operation
\* returned, it raised an Exception, or the task was cancelled there
\* (asyncio.CancelledError, a BaseException).
AwaitOutcomes == {"ok", "error", "cancelled"}

\* The tasks that call connect() and disconnect() on the manager; a task is
\* in one call at a time, any of them in either method.
Tasks == {"task1", "task2"}

\* Arguments passed to get_session; anything but "read" takes the else branch.
OperationTypes == {"read", "write"}

VARIABLES
  master_config,          \* self.master_config
  replica_config,         \* self.replica_config
  master_engine,          \* self.master_engine (None or an engine number)
  replica_engine,         \* self.replica_engine
  write_session_factory,  \* engine the write factory is bound to, or None
  read_session_factory,   \* engine the read factory is bound to, or None
  _connected,             \* self._connected
  engines,                \* every engine created so far: role, url, disposed
  lastOp,                 \* what the most recent step returned or raised
  lastLifecycle,          \* the most recent connect()/disconnect() call
  tasks                   \* bag of the suspended calls: await and call record

vars == <<master_config, replica_config, master_engine, replica_engine,
          write_session_factory, read_session_factory, _connected, engines,
          lastOp, lastLifecycle, tasks>>

\* The mutable attributes of the manager.
manager == <<master_engine, replica_engine, write_session_factory,
             read_session_factory, _connected>>

\* ------------------------------------------------------- pure operators

\* f"postgresql+asyncpg://{username}:{password}@{host}:{port}/{database}";
\* a missing key raises KeyError, subscripting None raises TypeError.
_build_connection_string(config) ==
  IF config.none THEN [raised |-> "TypeError", url |-> <<>>]
  ELSE IF Keys \subseteq DOMAIN config.items
    THEN [raised |-> "",
          url |-> <<"postgresql+asyncpg://", config.items["username"], ":",
                    config.items["password"], "@", config.items["host"], ":",
                    config.items["port"], "/", config.items["database"]>>]
    ELSE [raised |-> "KeyError", url |-> <<>>]

\* all(self.replica_config.values()): every value truthy (true for {}).
all_values(config) == \A k \in DOMAIN config.items : config.items[k] # ""

\* A write factory bound like the read factory.
write_bind_replica(master, replica) == IF replica # None THEN replica ELSE master

\* bind= of the write factory.
write_bind(master, replica) == master

\* The conditional with its branches swapped.
read_engine_swapped(master, replica) == IF replica # None THEN master ELSE replica

\* A read factory that ignores the replica.
read_engine_master(master, replica) == master

\* A read factory bound to the replica attribute whatever it holds.
read_engine_replica_only(master, replica) == replica

\* read_engine = self.replica_engine if self.replica_engine else self.master_engine
read_engine(master, replica) == IF replica # None THEN replica ELSE master

\* A status computed from the presence of the master engine.
health_check_by_engine(connected, master, replica) ==
  [status  |-> IF master # None THEN "healthy" ELSE "unhealthy",
   master  |-> master # None,
   replica |-> replica # None]

\* The dictionary health_check returns.
health_check(connected, master, replica) ==
  [status  |-> IF connected THEN "healthy" ELSE "unhealthy",
   master  |-> master # None,
   replica |-> replica # None]

\* The factory get_session calls for an operation type.
session_factory(operation_type, read_factory, write_factory) ==
  IF operation_type = "read" THEN read_factory ELSE write_factory

\* The guard of get_session.
not_connected(connected) == ~connected

\* ------------------------------------------------------------ the state

\* The manager's attributes and the engines, as one record.
Self ==
  [master_engine |-> master_engine, replica_engine |-> replica_engine,
   write_session_factory |-> write_session_factory,
   read_session_factory |-> read_session_factory,
   _connected |-> _connected, engines |-> engines]

NoResult == [status |-> "", master |-> FALSE, replica |-> FALSE]

\* The record of a call; the fields a call does not use keep these values.
NoCall ==
  [op |-> "init", raised |-> "", operation_type |-> "", session |-> None,
   result |-> NoResult, pre_connected |-> FALSE,
   prev_op |-> "", prev_raised |-> "",
   master_open |-> "skipped", replica_open |-> "skipped",
   master_probe |-> "skipped", replica_probe |-> "skipped",
   created |-> {}, dispose_calls |-> {}, pre_engines |-> {},
   overlapped |-> FALSE]

\* A call record for op made in the current state.
Call(op) == [NoCall EXCEPT !.op = op, !.pre_connected = _connected]

\* What is kept of the most recent connect()/disconnect() call once other
\* calls have followed it.
Lifecycle(call) ==
  [op |-> call.op, raised |-> IF call.raised = "" THEN "" ELSE "error",
   master_probe |-> call.master_probe, replica_open |-> call.replica_open,
   replica_probe |-> call.replica_probe, overlapped |-> call.overlapped]

\* A connect() or disconnect() call is suspended at an await.
Running == tasks # EmptyBag

\* A call record for connect(): it also notes whether the call begins while
\* another connect() or disconnect() is suspended.
ConnectCall == [Call("connect") EXCEPT !.overlapped = Running]

\* A call record for disconnect(): it also notes the engines held when it
\* begins and the connect()/disconnect() call that returned last before.
DisconnectCall ==
  [Call("disconnect") EXCEPT
     !.overlapped = Running,
     !.pre_engines = {master_engine, replica_engine} \ {None},
     !.prev_op = lastLifecycle.op,
     !.prev_raised = lastLifecycle.raised]

\* __init__
Init ==
  /\ master_config \in DictConfigs
  /\ replica_config \in DictConfigs \cup {NoneConfig}
  /\ master_engine = None
  /\ replica_engine = None
  /\ write_session_factory = None
  /\ read_session_factory = None
  /\ _connected = FALSE
  /\ engines = <<>>
  /\ lastOp = NoCall
  /\ lastLifecycle = Lifecycle(NoCall)
  /\ tasks = EmptyBag

\* create_async_engine(url, ...) succeeding: a new engine, not yet disposed.
new_engine(s, role, url) ==
  Append(s.engines, [role |-> role, url |-> url, disposed |-> FALSE])

\* connect(), the MASTER block: build the URL and create the engine.
create_master(s, env) ==
  LET b == _build_connection_string(master_config) IN
  IF b.raised # "" THEN [s |-> s, raised |-> b.raised, note |-> "skipped"]
  ELSE IF ~env.master_open
    THEN [s |-> s, raised |-> "EngineError", note |-> "failed"]
    ELSE [s |-> [s EXCEPT !.engines = new_engine(s, "master", b.url),
                          !.master_engine = Len(s.engines) + 1],
          raised |-> "", note |-> "ok"]

\* connect(), the REPLICA block: errors inside the inner try are swallowed.
create_replica(s, env) ==
  IF replica_config.none
    THEN [s |-> s, raised |-> "AttributeError", note |-> "skipped"]
  ELSE IF all_values(replica_config)
    THEN LET b == _build_connection_string(replica_config) IN
         IF b.raised # ""
           THEN [s |-> [s EXCEPT !.replica_engine = None],
                 raised |-> "", note |-> "failed"]
         ELSE IF ~env.replica_open
           THEN [s |-> [s EXCEPT !.replica_engine = None],
                 raised |-> "", note |-> "failed"]
           ELSE [s |-> [s EXCEPT !.engines = new_engine(s, "replica", b.url),
                                 !.replica_engine = Len(s.engines) + 1],
                 raised |-> "", note |-> "ok"]
    ELSE [s |-> s, raised |-> "", note |-> "skipped"]

\* connect(), the SESSION FACTORIES block.
bind_factories(s) ==
  [s EXCEPT
     !.write_session_factory = write_bind(s.master_engine, s.replica_engine),
     !.read_session_factory = read_engine(s.master_engine, s.replica_engine)]

\* A master probe whose failure is caught like the replica's.
_test_connections_master_swallowed(s, outcome) ==
  IF outcome = "cancelled"
    THEN [s |-> s, raised |-> "CancelledError", pc |-> "",
          master_probe |-> "cancelled"]
  ELSE IF s.replica_engine # None
    THEN [s |-> s, raised |-> "", pc |-> "replica_probe",
          master_probe |-> IF outcome = "ok" THEN "ok" ELSE "failed"]
    ELSE [s |-> s, raised |-> "", pc |-> "",
          master_probe |-> IF outcome = "ok" THEN "ok" ELSE "failed"]

\* _test_connections(), lines 126-130, when the awaited SELECT 1 on the
\* master ends: an error or a cancellation propagates; otherwise the replica
\* is probed if self.replica_engine is set now (pc "replica_probe"), else the
\* method returns.
_test_connections_master(s, outcome) ==
  IF outcome = "cancelled"
    THEN [s |-> s, raised |-> "CancelledError", pc |-> "",
          master_probe |-> "cancelled"]
  ELSE IF outcome = "error"
    THEN [s |-> s, raised |-> "ProbeError", pc |-> "",
          master_probe |-> "failed"]
  ELSE IF s.replica_engine # None
    THEN [s |-> s, raised |-> "", pc |-> "replica_probe",
          master_probe |-> "ok"]
    ELSE [s |-> s, raised |-> "", pc |-> "", master_probe |-> "ok"]

\* A replica probe whose failure is not caught.
_test_connections_replica_fatal(s, outcome) ==
  IF outcome = "ok" THEN [s |-> s, raised |-> "", replica_probe |-> "ok"]
  ELSE IF outcome = "error"
    THEN [s |-> s, raised |-> "ProbeError", replica_probe |-> "failed"]
    ELSE [s |-> s, raised |-> "CancelledError", replica_probe |-> "cancelled"]

\* _test_connections(), lines 131-137, when the awaited SELECT 1 on the
\* replica ends: an Exception is caught (line 135) and self.replica_engine set
\* to None; a cancellation is not an Exception and propagates.
_test_connections_replica(s, outcome) ==
  IF outcome = "ok" THEN [s |-> s, raised |-> "", replica_probe |-> "ok"]
  ELSE IF outcome = "error"
    THEN [s |-> [s EXCEPT !.replica_engine = None], raised |-> "",
          replica_probe |-> "failed"]
    ELSE [s |-> s, raised |-> "CancelledError", replica_probe |-> "cancelled"]

\* connect(), line 106, after _test_connections returned.
connect_finish(s) == [s EXCEPT !._connected = TRUE]

\* The manager's attributes and the engines become those of s.
Becomes(s) ==
  /\ master_engine' = s.master_engine
  /\ replica_engine' = s.replica_engine
  /\ write_session_factory' = s.write_session_factory
  /\ read_session_factory' = s.read_session_factory
  /\ _connected' = s._connected
  /\ engines' = s.engines

\* ----------------------------------------------------------- coroutines
\* connect() and disconnect() are coroutines: each runs up to an await, is
\* suspended there while other calls run, and resumes later, when the await
\* returns or raises.  Nothing in the class keeps a call from beginning while
\* another one is suspended.  get_session() and health_check() do not await
\* and are single steps.

\* A suspended call: the await it is at and its call record.
Suspended(pc, call) == [pc |-> pc, call |-> call]

\* The suspended calls that are at the await pc of the operation op.
At(op, pc) == {c \in BagToSet(tasks) : c.call.op = op /\ c.pc = pc}

\* The other suspended calls when the suspended call c resumes.
Others(c) == tasks (-) SetToBag({c})

\* The suspended calls when a new call begins: each is noted as overlapped.
Overlapped ==
  LET S == {[c EXCEPT !.call.overlapped = TRUE] : c \in BagToSet(tasks)}
  IN [c \in S |-> CopiesIn(c, tasks)
                    + CopiesIn([c EXCEPT !.call.overlapped = FALSE], tasks)]

\* A call returns or raises: it is recorded; rest are the calls still
\* suspended.
Returns(rest, call) ==
  /\ lastOp' = call
  /\ lastLifecycle' = Lifecycle(call)
  /\ tasks' = rest

\* A call is suspended at the await named pc, next to the calls in rest:
\* the step returns nothing to a caller.
Suspends(rest, pc, call) ==
  /\ tasks' = rest (+) SetToBag({Suspended(pc, call)})
  /\ lastOp' = [NoCall EXCEPT !.op = "suspended"]
  /\ UNCHANGED lastLifecycle

\* connect() is called: lines 52-104 and 126, up to the await of the master
\* probe; the errors of the master block and of line 67 are re-raised by the
\* outer except.
ConnectBegin ==
  /\ BagCardinality(tasks) < Cardinality(Tasks)
  /\ Len(engines) + 2 <= MaxEngines
  /\ \E master_open, replica_open \in BOOLEAN :
       LET env == [master_open |-> master_open, replica_open |-> replica_open]
           m == create_master(Self, env)
           r == create_replica(m.s, env)
           call == [ConnectCall EXCEPT
                      !.master_open = m.note,
                      !.replica_open = IF m.raised # "" THEN "skipped"
                                                        ELSE r.note,
                      !.created = IF m.raised # "" THEN {}
                                  ELSE (Len(engines) + 1) .. Len(r.s.engines)]
       IN IF m.raised # ""
            THEN /\ Becomes(m.s)
                 /\ Returns(Overlapped, [call EXCEPT !.raised = m.raised])
          ELSE IF r.raised # ""
            THEN /\ Becomes(r.s)
                 /\ Returns(Overlapped, [call EXCEPT !.raised = r.raised])
            ELSE /\ Becomes(bind_factories(r.s))
                 /\ Suspends(Overlapped, "master_probe", call)
  /\ UNCHANGED <<master_config, replica_config>>

\* A connect() resumes when its master probe ends: lines 126-132, then
\* either the error is re-raised, the replica probe is awaited, or line 106
\* is run.
ConnectMasterProbe ==
  /\ \E c \in At("connect", "master_probe"), outcome \in AwaitOutcomes :
       LET p == _test_connections_master(Self, outcome)
           call == [c.call EXCEPT !.raised = p.raised,
                                  !.master_probe = p.master_probe]
       IN IF p.raised # ""
            THEN /\ Becomes(p.s)
                 /\ Returns(Others(c), call)
          ELSE IF p.pc = "replica_probe"
            THEN /\ Becomes(p.s)
                 /\ Suspends(Others(c), "replica_probe", call)
            ELSE /\ Becomes(connect_finish(p.s))
                 /\ Returns(Others(c), call)
  /\ UNCHANGED <<master_config, replica_config>>

\* A connect() resumes when its replica probe ends: lines 132-137, then
\* line 106 or, on a cancellation, the outer except.
ConnectReplicaProbe ==
  /\ \E c \in At("connect", "replica_probe"), outcome \in AwaitOutcomes :
       LET p == _test_connections_replica(Self, outcome)
           call == [c.call EXCEPT !.raised = p.raised,
                                  !.replica_probe = p.replica_probe]
       IN IF p.raised # ""
            THEN /\ Becomes(p.s)
                 /\ Returns(Others(c), call)
            ELSE /\ Becomes(connect_finish(p.s))
                 /\ Returns(Others(c), call)
  /\ UNCHANGED <<master_config, replica_config>>

\* engine.dispose() having closed the pool of engine e.
dispose(es, e) == [es EXCEPT ![e].disposed = TRUE]

\* What an await of dispose() that does not end with "ok" raises.
dispose_raised(outcome) ==
  IF outcome = "cancelled" THEN "CancelledError" ELSE "DisposeError"

\* disconnect(), line 122: the flag is cleared and the call returns.
disconnect_finish(rest, call) ==
  /\ _connected' = FALSE
  /\ UNCHANGED <<master_engine, replica_engine, write_session_factory,
                 read_session_factory, engines>>
  /\ Returns(rest, call)

\* disconnect(), `await e.dispose()` up to its suspension (line 117 or 120):
\* dispose() raises at once, or closes the pool and the call is suspended
\* at pc.
disconnect_dispose(rest, call, e, pc) ==
  LET c == [call EXCEPT !.dispose_calls = @ \cup {e}] IN
  \E started \in BOOLEAN :
    IF started
      THEN /\ engines' = dispose(engines, e)
           /\ UNCHANGED manager
           /\ Suspends(rest, pc, c)
      ELSE /\ UNCHANGED <<manager, engines>>
           /\ Returns(rest, [c EXCEPT !.raised = "DisposeError"])

\* disconnect(), lines 119-122: dispose the replica engine if one is held
\* now; with none, line 122 is reached without an await.
disconnect_replica(rest, call) ==
  IF replica_engine # None
    THEN disconnect_dispose(rest, call, replica_engine, "replica_dispose")
    ELSE disconnect_finish(rest, call)

\* disconnect() is called: lines 116-117, up to its first await.
DisconnectBegin ==
  /\ BagCardinality(tasks) < Cardinality(Tasks)
  /\ IF master_engine # None
       THEN disconnect_dispose(Overlapped, DisconnectCall,
                               master_engine, "master_dispose")
       ELSE disconnect_replica(Overlapped, DisconnectCall)
  /\ UNCHANGED <<master_config, replica_config>>

\* A disconnect() resumes when the await of the master's dispose() ends
\* (line 117): it raises there, or goes on with lines 119-120.
DisconnectResume ==
  /\ \E c \in At("disconnect", "master_dispose"), outcome \in AwaitOutcomes :
       IF outcome = "ok"
         THEN disconnect_replica(Others(c), c.call)
         ELSE /\ UNCHANGED <<manager, engines>>
              /\ Returns(Others(c),
                         [c.call EXCEPT !.raised = dispose_raised(outcome)])
  /\ UNCHANGED <<master_config, replica_config>>

\* A disconnect() resumes when the await of the replica's dispose() ends
\* (line 120): it raises there, or runs line 122.
DisconnectFinish ==
  /\ \E c \in At("disconnect", "replica_dispose"), outcome \in AwaitOutcomes :
       IF outcome = "ok"
         THEN disconnect_finish(Others(c), c.call)
         ELSE /\ UNCHANGED <<manager, engines>>
              /\ Returns(Others(c),
                         [c.call EXCEPT !.raised = dispose_raised(outcome)])
  /\ UNCHANGED <<master_config, replica_config>>

\* get_session(operation_type): raises when not connected, else calls the
\* factory (calling a factory that is None raises TypeError).
get_session(s, operation_type) ==
  IF not_connected(s._connected)
    THEN [raised |-> "RuntimeError", session |-> None]
  ELSE
  LET f == session_factory(operation_type, s.read_session_factory,
                           s.write_session_factory)
  IN IF f = None THEN [raised |-> "TypeError", session |-> None]
                 ELSE [raised |-> "", session |-> f]

\* A call of get_session().
GetSession ==
  \E operation_type \in OperationTypes :
    /\ LET g == get_session(Self, operation_type) IN
       lastOp' = [Call("get_session") EXCEPT
                    !.raised = g.raised,
                    !.operation_type = operation_type,
                    !.session = g.session]
    /\ UNCHANGED <<master_config, replica_config, manager, engines,
                   lastLifecycle, tasks>>

\* A call of health_check().
HealthCheck ==
  /\ lastOp' = [Call("health_check") EXCEPT
                  !.result = health_check(_connected, master_engine,
                                          replica_engine)]
  /\ UNCHANGED <<master_config, replica_config, manager, engines,
                 lastLifecycle, tasks>>

Next ==
  \/ ConnectBegin
  \/ ConnectMasterProbe
  \/ ConnectReplicaProbe
  \/ DisconnectBegin
  \/ DisconnectResume
  \/ DisconnectFinish
  \/ GetSession
  \/ HealthCheck

Spec == Init /\ [][Next]_vars

\* ------------------------------------------------------------ properties

\* The role of the engine a session or factory is bound to.
Role(e) == engines[e].role

\* get_session returned a session in the last call.
Returned == lastOp.op = "get_session" /\ lastOp.raised = ""

\* A connect() call is suspended at one of its awaits.
ConnectSuspended == \E c \in BagToSet(tasks) : c.call.op = "connect"

\* A disconnect() call is suspended at one of its awaits.
DisconnectSuspended == \E c \in BagToSet(tasks) : c.call.op = "disconnect"

\* The last connect()/disconnect() call that returned ran from its call to
\* its return with no other one in progress, and none is in progress now.
RanAlone == ~lastLifecycle.overlapped /\ ~Running

\* What health_check() would return in the current state.
Health == health_check(_connected, master_engine, replica_engine)

\* C1: a session returned by get_session("write"), or by get_session with any
\* operation type other than "read" (the default is "write"), is bound to a
\* master engine, never to a replica engine; so is the write factory itself.
C1_WriteSessionOnMaster ==
  /\ write_session_factory # None => Role(write_session_factory) = "master"
  /\ (Returned /\ lastOp.operation_type # "read")
       => /\ lastOp.session # None
          /\ Role(lastOp.session) = "master"

\* A write session is returned while a replica engine is in use for reads.
C1_Witness ==
  /\ Returned /\ lastOp.operation_type = "write"
  /\ replica_engine # None
  /\ Role(read_session_factory) = "replica"

\* C2 (as claimed): when the replica probe fails in a connect() that ran with
\* no other connect() or disconnect() in progress, connect() succeeds,
\* health_check().replica is false and the read factory and every read
\* session are bound to the master engine.
C2_ReadsFallBackToMaster ==
  (lastLifecycle.op = "connect" /\ lastLifecycle.replica_probe = "failed"
     /\ RanAlone)
    => /\ lastLifecycle.raised = ""
       /\ _connected
       /\ ~Health.replica
       /\ read_session_factory # None
       /\ Role(read_session_factory) = "master"
       /\ (Returned /\ lastOp.operation_type = "read")
            => Role(lastOp.session) = "master"

\* The replica config is None, is {} or has a falsy field.
ReplicaAbsentOrEmpty ==
  \/ replica_config.none
  \/ DOMAIN replica_config.items = {}
  \/ ~all_values(replica_config)

\* C3: with an absent or empty replica config, after a successful connect()
\* health_check().replica is false and the read factory, hence every read
\* session, is bound to the same master engine as the write factory.
C3_NoReplicaReadsUseMaster ==
  (ReplicaAbsentOrEmpty /\ lastLifecycle.op = "connect"
                        /\ lastLifecycle.raised = "")
    => /\ ~Health.replica
       /\ read_session_factory # None
       /\ read_session_factory = write_session_factory
       /\ Role(read_session_factory) = "master"
       /\ Returned => lastOp.session = write_session_factory
       /\ lastOp.op = "health_check" => ~lastOp.result.replica

\* A read session is returned after connect() with the replica config {}.
C3_Witness ==
  /\ replica_config = [none |-> FALSE, items |-> EmptyItems]
  /\ lastLifecycle.op = "connect" /\ lastLifecycle.raised = ""
  /\ Returned /\ lastOp.operation_type = "read"

\* C4: after a connect() in which the replica engine was created and its
\* probe succeeded, that ran with no other connect() or disconnect() in
\* progress, and while no connect() is in progress, the read factory and every read session are bound to the
\* replica engine, the write factory and every write session to the master
\* engine, and health_check().replica is true.
C4_HealthyReplicaServesReads ==
  (lastLifecycle.op = "connect" /\ lastLifecycle.raised = ""
     /\ lastLifecycle.replica_open = "ok"
     /\ lastLifecycle.replica_probe = "ok"
     /\ ~lastLifecycle.overlapped /\ ~ConnectSuspended)
    => /\ Health.replica
       /\ read_session_factory = replica_engine
       /\ Role(read_session_factory) = "replica"
       /\ write_session_factory = master_engine
       /\ Role(write_session_factory) = "master"
       /\ (Returned /\ lastOp.operation_type = "read")
            => Role(lastOp.session) = "replica"
       /\ (Returned /\ lastOp.operation_type # "read")
            => Role(lastOp.session) = "master"
       /\ lastOp.op = "health_check" => lastOp.result.replica

\* A read session is returned after a connect() with a healthy replica.
C4_Witness ==
  /\ lastLifecycle.op = "connect" /\ lastLifecycle.raised = ""
  /\ lastLifecycle.replica_probe = "ok"
  /\ Returned /\ lastOp.operation_type = "read"

\* The last connect()/disconnect() left the manager not connected, as the
\* lifecycle is described: none yet, a connect() that failed, or a
\* disconnect() that completed.
LifecycleNotConnected ==
  \/ lastLifecycle.op = "init"
  \/ lastLifecycle.op = "connect" /\ lastLifecycle.raised # ""
  \/ lastLifecycle.op = "disconnect" /\ lastLifecycle.raised = ""

\* C5 (as claimed): get_session raises the not-connected error and returns no
\* session before any connect(), after a connect() that failed and after a
\* disconnect() that completed, each run with no other connect() or
\* disconnect() in progress.
C5_NoSessionWhenNotConnected ==
  (lastOp.op = "get_session" /\ LifecycleNotConnected /\ RanAlone)
    => /\ lastOp.raised = "RuntimeError"
       /\ lastOp.session = None

\* C6 (as claimed): after a connect() whose master probe failed, run with no
\* other connect() or disconnect() in progress, the error reached the caller, the manager is not connected whatever it was before,
\* health_check().status is not healthy and get_session fails.
C6_MasterProbeFailureDisconnects ==
  (lastLifecycle.op = "connect" /\ lastLifecycle.master_probe = "failed"
     /\ RanAlone)
    => /\ lastLifecycle.raised # ""
       /\ ~_connected
       /\ Health.status # "healthy"
       /\ lastOp.op = "get_session" => lastOp.raised = "RuntimeError"

\* C7 (as claimed): right after a connect() that ran with no other connect()
\* or disconnect() in progress and failed at the creation or at the
\* probe of the master engine, the manager retains no engine and every engine
\* that connect() created has been disposed.
C7_FailedConnectTornDown ==
  (lastOp.op = "connect" /\ ~lastOp.overlapped /\ ~Running
     /\ (lastOp.master_open = "failed" \/ lastOp.master_probe = "failed"))
    => /\ lastOp.raised # ""
       /\ ~Health.master /\ ~Health.replica
       /\ \A e \in lastOp.created : engines[e].disposed

\* C8 (as claimed): a disconnect() called right after a completed
\* disconnect(), or on a freshly constructed manager, and run with no
\* connect() in progress, raises nothing, leaves the manager not connected
\* and calls dispose() on no engine.
C8_SecondDisconnectNoOp ==
  (lastOp.op = "disconnect" /\ ~lastOp.overlapped /\ ~Running
     /\ \/ lastOp.prev_op = "init"
        \/ lastOp.prev_op = "disconnect" /\ lastOp.prev_raised = "")
    => /\ lastOp.raised = ""
       /\ ~_connected
       /\ lastOp.dispose_calls = {}

\* C9 (as claimed): every disconnect() run with no connect() in progress
\* calls dispose() on each engine the
\* manager holds, also when the master's dispose() raised, and leaves the
\* manager not connected.
C9_DisconnectReleasesIndependently ==
  (lastOp.op = "disconnect" /\ ~lastOp.overlapped /\ ~Running)
    => /\ lastOp.pre_engines \subseteq lastOp.dispose_calls
       /\ ~_connected

\* C10: a health_check() call changes neither the configs, the manager's
\* attributes nor the engines, raises nothing, and its status is "healthy"
\* exactly when the manager's connected flag is set.
C10_HealthCheckPure ==
  [][(lastOp' # lastOp /\ lastOp'.op = "health_check")
       => /\ UNCHANGED <<master_config, replica_config, manager, engines>>
          /\ lastOp'.raised = ""
          /\ lastOp'.result.status \in {"healthy", "unhealthy"}
          /\ (lastOp'.result.status = "healthy") <=> _connected
          /\ lastOp'.result.master = (master_engine # None)
          /\ lastOp'.result.replica = (replica_engine # None)]_vars

\* health_check() reports unhealthy while a master engine is still held.
C10_Witness ==
  /\ lastOp.op = "health_check"
  /\ lastOp.result.status = "unhealthy"
  /\ lastOp.result.master

\* The master config has a required field missing or falsy.
MasterConfigInvalid ==
  \/ ~(Keys \subseteq DOMAIN master_config.items)
  \/ ~all_values(master_config)

\* C11 (as claimed): connect(), run with no other connect() or disconnect()
\* in progress, with a master config that has a required field
\* missing or empty raises, creates no engine, binds no factory and leaves
\* the connected flag as it was.
C11_InvalidMasterConfigRejected ==
  (lastOp.op = "connect" /\ ~lastOp.overlapped /\ ~Running /\ MasterConfigInvalid)
    => /\ lastOp.raised # ""
       /\ lastOp.created = {}
       /\ write_session_factory = None /\ read_session_factory = None
       /\ _connected = lastOp.pre_connected

\* C12: when a connect() in which the master engine was created and its
\* probe succeeded returns, its task not having been cancelled at the replica
\* probe, it raises nothing and the manager is connected, for every replica
\* outcome; when moreover the replica engine could not be built or created
\* and no other connect() or disconnect() was in progress during the call,
\* the manager is then as when the replica is not configured: no replica
\* engine, health_check().replica false, both factories bound to the master
\* engine, the only engine that connect() created.
C12_ReplicaFailureAbsorbed ==
  [][(lastOp' # lastOp /\ lastOp'.op = "connect"
        /\ lastOp'.master_open = "ok" /\ lastOp'.master_probe = "ok"
        /\ lastOp'.replica_probe # "cancelled")
       => /\ lastOp'.raised = ""
          /\ _connected'
          /\ (lastOp'.replica_open \in {"failed", "skipped"}
                /\ ~lastOp'.overlapped)
               => /\ replica_engine' = None
                  /\ ~Health'.replica
                  /\ read_session_factory' = master_engine'
                  /\ write_session_factory' = master_engine'
                  /\ lastOp'.created = {master_engine'}]_vars

\* connect() succeeded although the replica engine could not be created.
C12_Witness ==
  /\ lastOp.op = "connect" /\ lastOp.raised = ""
  /\ lastOp.replica_open = "failed"
  /\ all_values(replica_config) /\ Keys \subseteq DOMAIN replica_config.items

\* C13 (as claimed): after a completed disconnect() that ran with no
\* connect() in progress and finds no replica engine held, every replica engine ever created has been disposed; a
\* replica engine discarded by a failed probe is among them.
C13_DiscardedReplicaDisposed ==
  (lastLifecycle.op = "disconnect" /\ lastLifecycle.raised = ""
     /\ RanAlone /\ replica_engine = None)
    => \A e \in 1..Len(engines) :
         engines[e].role = "replica" => engines[e].disposed

\* C14 (as claimed): a connect() on a connected manager creates no engine, and
\* after a completed disconnect() that ran with no connect() in progress every master engine ever created has been
\* disposed.
C14_ReconnectOpensNoPools ==
  /\ (lastOp.op = "connect" /\ ~lastOp.overlapped /\ ~Running /\ lastOp.pre_connected)
       => lastOp.created = {}
  /\ (lastLifecycle.op = "disconnect" /\ lastLifecycle.raised = ""
        /\ RanAlone)
       => \A e \in 1..Len(engines) :
            engines[e].role = "master" => engines[e].disposed

\* C15 (as claimed): from a completed disconnect() that ran with no connect()
\* in progress until the next connect(),
\* health_check() reports status not healthy, master false and replica false.
C15_DisconnectDestroysBackends ==
  (lastLifecycle.op = "disconnect" /\ lastLifecycle.raised = "" /\ RanAlone)
    => /\ Health.status # "healthy"
       /\ ~Health.master
       /\ ~Health.replica

\* C16: the connected flag becomes set only in a connect() that created the
\* master engine, probed it successfully and raised nothing; it becomes unset
\* only in a disconnect() that completed; and a connect() whose master engine
\* was created and probed successfully, its task not having been cancelled at
\* the replica probe, sets it whatever happened to the replica.
C16_LifecycleTransitions ==
  [][/\ (~_connected /\ _connected')
          => /\ lastOp'.op = "connect" /\ lastOp'.raised = ""
             /\ lastOp'.master_open = "ok" /\ lastOp'.master_probe = "ok"
     /\ (_connected /\ ~_connected')
          => lastOp'.op = "disconnect" /\ lastOp'.raised = ""
     /\ (lastOp'.op = "connect" /\ lastOp'.master_open = "ok"
           /\ lastOp'.master_probe = "ok"
           /\ lastOp'.replica_probe # "cancelled")
          => _connected']_vars

\* The manager became connected in a connect() whose replica probe failed.
C16_Witness ==
  /\ lastOp.op = "connect" /\ ~lastOp.pre_connected /\ _connected
  /\ lastOp.replica_probe = "failed"

\* C17 (as claimed): a connect() that ran with no other connect() or
\* disconnect() in progress and could not build or create the master
\* engine raises, leaves the manager not connected, and neither attempts the
\* replica engine nor probes anything.
C17_MasterOpenFailureStops ==
  (lastOp.op = "connect" /\ ~lastOp.overlapped /\ ~Running /\ lastOp.master_open # "ok")
    => /\ lastOp.raised # ""
       /\ ~_connected
       /\ lastOp.replica_open = "skipped"
       /\ lastOp.master_probe = "skipped"
       /\ lastOp.replica_probe = "skipped"
       /\ lastOp.created = {}

\* C19: while the connected flag is set (health_check().status is "healthy")
\* the master engine is held and both factories are bound, and a get_session
\* call made in such a state returns a session.
C19_HealthyImpliesUsable ==
  /\ Health.status = "healthy"
       => /\ Health.master
          /\ write_session_factory # None
          /\ read_session_factory # None
  /\ (lastOp.op = "get_session" /\ lastOp.pre_connected)
       => lastOp.raised = "" /\ lastOp.session # None

\* A read session is returned on a connected manager that holds no replica.
C19_Witness ==
  /\ Returned /\ lastOp.operation_type = "read"
  /\ Health.status = "healthy" /\ ~Health.replica

\* C18 (as claimed): a get_session() call made while a disconnect() is
\* suspended between its disposals returns no session bound to an engine
\* that has already been disposed.
C18_NoSessionOnDisposedPool ==
  [][(DisconnectSuspended /\ lastOp' # lastOp
        /\ lastOp'.op = "get_session" /\ lastOp'.raised = "")
       => ~engines[lastOp'.session].disposed]_vars

====
